---- MODULE Spec2Model ----
(***************************************************************************)
(* A model of the BusTub storage core of this repository: the clock        *)
(* replacer (src/buffer/clock_replacer.cpp), the buffer pool manager       *)
(* (src/buffer/buffer_pool_manager.cpp), the hash table block page         *)
(* (src/storage/page/hash_table_block_page.cpp) and the linear probe hash  *)
(* table (src/container/hash/linear_probe_hash_table.cpp).                 *)
(*                                                                         *)
(* Four specifications share the variables:                                *)
(*   Spec      callers invoke the buffer pool manager one call at a time;  *)
(*             a call that would wait on a held latch is not enabled.      *)
(*   DataSpec  the same, with callers that write the frames they pin.      *)
(*   ConcSpec  threads run buffer pool manager calls in parallel, one      *)
(*             latch acquisition at a time.                                *)
(*   HashSpec  callers invoke the hash table one call at a time, on top of *)
(*             the same buffer pool manager operators.                     *)
(***************************************************************************)
EXTENDS Integers, Sequences, FiniteSets, TLC

\* ------------------------------------------------------------------ bounds
\* Frames of the pool (pool_size_) under Spec and ConcSpec, and under DataSpec.
PoolSize == 2
DataPoolSize == 1
\* Page ids the Disk Manager hands out before the model stops allocating.
MaxPages == 3
\* Cap on a frame's pin count (FetchPage of a resident page is not taken beyond it).
MaxPin == 2
\* Distinct non-zero page images a caller writes into a pinned frame.
MaxData == 1
\* Frames of the pool under HashSpec.
HashPoolSize == 3
\* Keys and values of the hash table are 0 .. MaxKey and 0 .. MaxVal.
MaxKey == 1
MaxVal == 1

\* ------------------------------------------------------- program constants
INVALID_PAGE_ID == -1
\* Slots of a block page (shrunk from the value derived from PAGE_SIZE).
BLOCK_ARRAY_SIZE == 2

\* A frame pointer that is nullptr, as a frame id.
NullFrame == -1

Slots == 0 .. (BLOCK_ARRAY_SIZE - 1)

\* Page ids callers name and the Disk Manager stores.
PageIds == 0 .. (MaxPages - 1)
DiskPageIds == PageIds \cup {INVALID_PAGE_ID}

\* The bytes of a page after ResetMemory, read through the header page's and
\* the block page's layout.
ZeroData ==
  [ page_id_ |-> 0, size_ |-> 0, block_page_ids_ |-> << >>,
    occupied_ |-> {}, readable_ |-> {},
    array_ |-> [i \in Slots |-> <<0, 0>>] ]

\* The page images a caller of the buffer pool writes into a frame it has pinned.
Stamp(v) == [ZeroData EXCEPT !.size_ = v]
DataVals == {Stamp(v) : v \in 1 .. MaxData}

VARIABLES
  pages_,        \* frame id -> [page_id_, pin_count_, is_dirty_, data_]
  page_table_,   \* page id -> frame id (a function on the resident page ids)
  free_list_,    \* sequence of frame ids
  replacer_,     \* [clock_hand, ref_f, in_f]
  disk,          \* Disk Manager: page id -> page image
  next_page_id,  \* Disk Manager: the id AllocatePage returns next
  pg_latch,      \* 0 when free, else the thread that holds it
  pt_latch,
  fl_latch,
  last,          \* the call that returned last and what it returned
  tracked,       \* the page id whose history snap and stale follow
  snap,          \* [has, data]: its frame's data at the latest UnpinPage(tracked, true)
  stale,         \* whether a caller wrote it or it was deleted since that unpin
  thr,           \* ConcSpec: thread -> [pc, page_id, is_dirty] of the call it is in
  header_page_id_,  \* hash table: its header page, INVALID_PAGE_ID before construction
  table_latch_      \* hash table: the number of readers that hold the table latch

bpmVars == << pages_, page_table_, free_list_, replacer_, disk, next_page_id,
              pg_latch, pt_latch, fl_latch >>
ghostVars == << tracked, snap, stale >>
hashVars == << header_page_id_, table_latch_ >>
vars == << pages_, page_table_, free_list_, replacer_, disk, next_page_id,
           pg_latch, pt_latch, fl_latch, last, tracked, snap, stale,
           thr, header_page_id_, table_latch_ >>

\* ================================================================ replacer

ClockReplacer(num_pages) ==
  [ clock_hand |-> 0,
    ref_f |-> [i \in 0 .. (num_pages - 1) |-> FALSE],
    in_f  |-> [i \in 0 .. (num_pages - 1) |-> FALSE] ]

buffer_size(r) == Cardinality(DOMAIN r.in_f)

\* The loop of Victim that leaves the reference bits it passes as they are.
RECURSIVE VictimLoop_KeepRef(_, _, _)
VictimLoop_KeepRef(r, i, candi) ==
  LET index == (r.clock_hand + i) % buffer_size(r) IN
  IF i >= buffer_size(r)
  THEN IF candi = -1
       THEN [r |-> r, result |-> FALSE, frame_id |-> NullFrame]
       ELSE [r |-> [r EXCEPT !.clock_hand = (candi + 1) % buffer_size(r),
                             !.in_f[candi] = FALSE],
             result |-> TRUE, frame_id |-> candi]
  ELSE IF r.in_f[index] /\ ~r.ref_f[index]
  THEN [r |-> [r EXCEPT !.clock_hand = (index + 1) % buffer_size(r),
                        !.in_f[index] = FALSE],
        result |-> TRUE, frame_id |-> index]
  ELSE IF r.in_f[index] /\ r.ref_f[index]
  THEN VictimLoop_KeepRef(r, i + 1, IF candi = -1 THEN index ELSE candi)
  ELSE VictimLoop_KeepRef(r, i + 1, candi)

\* The loop of Victim from step i on, and what follows the loop.
RECURSIVE VictimLoop(_, _, _)
VictimLoop(r, i, candi) ==
  LET index == (r.clock_hand + i) % buffer_size(r) IN
  IF i >= buffer_size(r)
  THEN IF candi = -1
       THEN [r |-> r, result |-> FALSE, frame_id |-> NullFrame]
       ELSE [r |-> [r EXCEPT !.clock_hand = (candi + 1) % buffer_size(r),
                             !.in_f[candi] = FALSE],
             result |-> TRUE, frame_id |-> candi]
  ELSE IF r.in_f[index] /\ ~r.ref_f[index]
  THEN [r |-> [r EXCEPT !.clock_hand = (index + 1) % buffer_size(r),
                        !.in_f[index] = FALSE],
        result |-> TRUE, frame_id |-> index]
  ELSE IF r.in_f[index] /\ r.ref_f[index]
  THEN VictimLoop([r EXCEPT !.ref_f[index] = FALSE], i + 1,
                  IF candi = -1 THEN index ELSE candi)
  ELSE VictimLoop(r, i + 1, candi)

\* Victim whose scan starts one position after the clock hand.
Victim_AfterHand(r) == VictimLoop(r, 1, -1)

Victim(r) == VictimLoop(r, 0, -1)

Pin(r, frame_id) ==
  IF frame_id >= buffer_size(r) THEN r
  ELSE [r EXCEPT !.in_f[frame_id] = FALSE]

\* Unpin that leaves the reference bit as it was.
Unpin_NoRef(r, frame_id) ==
  IF frame_id >= buffer_size(r) THEN r
  ELSE [r EXCEPT !.in_f[frame_id] = TRUE]

Unpin(r, frame_id) ==
  IF frame_id >= buffer_size(r) THEN r
  ELSE [r EXCEPT !.in_f[frame_id] = TRUE, !.ref_f[frame_id] = TRUE]

Size(r) == Cardinality({i \in DOMAIN r.in_f : r.in_f[i]})

\* ===================================================== buffer pool manager
\* The thread of the callers of Spec and HashSpec.
Caller == 1

\* A Page as its constructor leaves it.
NewFrame == [page_id_ |-> INVALID_PAGE_ID, pin_count_ |-> 0, is_dirty_ |-> FALSE,
             data_ |-> ZeroData]

\* The state of a buffer pool manager over num frames, with the Disk Manager
\* it was given and the out-parameters and result of the call made last.
BufferPoolManager(num) ==
  [ pages_ |-> [f \in 0 .. (num - 1) |-> NewFrame],
    page_table_ |-> [q \in {} |-> 0],
    free_list_ |-> [i \in 1 .. num |-> i - 1],
    replacer_ |-> ClockReplacer(num),
    disk |-> [q \in DiskPageIds |-> ZeroData],
    next_page_id |-> 0,
    pg_latch |-> 0, pt_latch |-> 0, fl_latch |-> 0,
    frame |-> NullFrame, page |-> INVALID_PAGE_ID, ok |-> FALSE,
    dealloc |-> INVALID_PAGE_ID, blocked |-> FALSE ]

Erase(pt, page_id) == [q \in (DOMAIN pt) \ {page_id} |-> pt[q]]
Put(pt, page_id, frame) ==
  [q \in (DOMAIN pt) \cup {page_id} |-> IF q = page_id THEN frame ELSE pt[q]]

\* The call waits on a latch forever: it never returns.
Blocked(b) == [b EXCEPT !.blocked = TRUE]

\* Disk Manager.
ReadPage(b, page_id) == b.disk[page_id]
WritePage(b, page_id, data) == [b EXCEPT !.disk[page_id] = data]
AllocatePage(b) == [b EXCEPT !.next_page_id = @ + 1, !.page = b.next_page_id]
DeallocatePage(b, page_id) == [b EXCEPT !.dealloc = page_id]

\* FlushPageImpl that writes the page and leaves is_dirty_ set.
FlushPageImpl_KeepDirty(b, page_id) ==
  IF page_id \notin DOMAIN b.page_table_
  THEN [b EXCEPT !.ok = FALSE]
  ELSE LET frame == b.page_table_[page_id] IN
       IF ~b.pages_[frame].is_dirty_
       THEN [b EXCEPT !.ok = TRUE]
       ELSE [WritePage(b, page_id, b.pages_[frame].data_) EXCEPT !.ok = TRUE]

FlushPageImpl(b, page_id) ==
  IF page_id \notin DOMAIN b.page_table_
  THEN [b EXCEPT !.ok = FALSE]
  ELSE LET frame == b.page_table_[page_id] IN
       IF ~b.pages_[frame].is_dirty_
       THEN [b EXCEPT !.ok = TRUE]
       ELSE [WritePage(b, page_id, b.pages_[frame].data_)
               EXCEPT !.pages_[frame].is_dirty_ = FALSE, !.ok = TRUE]

\* FetchPageImpl from "evict" on, without the write-back of a dirty victim.
FetchFromReplacer_NoFlush(b, page_id) ==
  LET v == Victim(b.replacer_)
      target == v.frame_id
      b1 == [b EXCEPT !.replacer_ = v.r, !.pg_latch = Caller, !.pt_latch = Caller]
      evict_page == b.pages_[target].page_id_
  IN
  IF ~v.result THEN [b1 EXCEPT !.frame = NullFrame]
  ELSE [b1 EXCEPT !.replacer_ = Pin(@, target),
                  !.pages_[target] =
                      [page_id_ |-> page_id, pin_count_ |-> @.pin_count_ + 1,
                       is_dirty_ |-> FALSE, data_ |-> ReadPage(b1, page_id)],
                  !.page_table_ = Put(Erase(@, evict_page), page_id, target),
                  !.pg_latch = 0, !.pt_latch = 0,
                  !.frame = target]

\* FetchPageImpl from "evict" on: the free list was empty.
FetchFromReplacer(b, page_id) ==
  LET v == Victim(b.replacer_)
      target == v.frame_id
      b1 == [b EXCEPT !.replacer_ = v.r, !.pg_latch = Caller, !.pt_latch = Caller]
      evict_page == b.pages_[target].page_id_
      b2 == IF b.pages_[target].is_dirty_ THEN FlushPageImpl(b1, evict_page)
            ELSE [b1 EXCEPT !.ok = TRUE]
  IN
  IF ~v.result THEN [b1 EXCEPT !.frame = NullFrame]
  ELSE IF ~b2.ok THEN [b2 EXCEPT !.frame = NullFrame]
  ELSE [b2 EXCEPT !.replacer_ = Pin(@, target),
                  !.pages_[target] =
                      [page_id_ |-> page_id, pin_count_ |-> @.pin_count_ + 1,
                       is_dirty_ |-> FALSE, data_ |-> ReadPage(b2, page_id)],
                  !.page_table_ = Put(Erase(@, evict_page), page_id, target),
                  !.pg_latch = 0, !.pt_latch = 0,
                  !.frame = target]

\* FetchPageImpl taking the free list's front frame without popping it.
FetchFromFreeList_KeepFront(b, page_id) ==
  LET target == Head(b.free_list_) IN
  [b EXCEPT !.replacer_ = Pin(@, target),
            !.pages_[target] =
                [page_id_ |-> page_id, pin_count_ |-> @.pin_count_ + 1,
                 is_dirty_ |-> FALSE, data_ |-> ReadPage(b, page_id)],
            !.page_table_ = Put(@, page_id, target),
            !.frame = target]

FetchFromFreeList(b, page_id) ==
  LET target == Head(b.free_list_) IN
  [b EXCEPT !.free_list_ = Tail(@),
            !.replacer_ = Pin(@, target),
            !.pages_[target] =
                [page_id_ |-> page_id, pin_count_ |-> @.pin_count_ + 1,
                 is_dirty_ |-> FALSE, data_ |-> ReadPage(b, page_id)],
            !.page_table_ = Put(@, page_id, target),
            !.frame = target]

\* FetchPageImpl on a resident page without the replacer's Pin.
FetchResident_NoPin(b, page_id) ==
  LET target == b.page_table_[page_id] IN
  [b EXCEPT !.pages_[target].pin_count_ = @ + 1,
            !.frame = target]

\* FetchPageImpl when the page table holds page_id.
FetchResident(b, page_id) ==
  LET target == b.page_table_[page_id] IN
  [b EXCEPT !.replacer_ = Pin(@, target),
            !.pages_[target].pin_count_ = @ + 1,
            !.frame = target]

FetchPageImpl(b, page_id) ==
  IF b.pg_latch # 0 \/ b.pt_latch # 0 THEN Blocked(b)
  ELSE IF page_id \in DOMAIN b.page_table_ THEN FetchResident(b, page_id)
  ELSE IF b.fl_latch # 0 THEN Blocked(b)
  ELSE IF Len(b.free_list_) # 0 THEN FetchFromFreeList(b, page_id)
  ELSE FetchFromReplacer(b, page_id)

\* UnpinPageImpl that assigns is_dirty_ instead of or-ing it.
UnpinPageImpl_OverwriteDirty(b, page_id, is_dirty) ==
  IF b.pt_latch # 0 THEN Blocked(b)
  ELSE IF page_id \notin DOMAIN b.page_table_ THEN [b EXCEPT !.ok = TRUE]
  ELSE IF b.pg_latch # 0 THEN Blocked(b)
  ELSE LET frame == b.page_table_[page_id] IN
       IF b.pages_[frame].pin_count_ <= 0 THEN [b EXCEPT !.ok = FALSE]
       ELSE LET b1 == [b EXCEPT !.pages_[frame].pin_count_ = @ - 1,
                                !.pages_[frame].is_dirty_ = is_dirty]
            IN [b1 EXCEPT !.replacer_ =
                              IF b1.pages_[frame].pin_count_ = 0
                              THEN Unpin(@, frame) ELSE @,
                          !.ok = TRUE]

UnpinPageImpl(b, page_id, is_dirty) ==
  IF b.pt_latch # 0 THEN Blocked(b)
  ELSE IF page_id \notin DOMAIN b.page_table_ THEN [b EXCEPT !.ok = TRUE]
  ELSE IF b.pg_latch # 0 THEN Blocked(b)
  ELSE LET frame == b.page_table_[page_id] IN
       IF b.pages_[frame].pin_count_ <= 0 THEN [b EXCEPT !.ok = FALSE]
       ELSE LET b1 == [b EXCEPT !.pages_[frame].pin_count_ = @ - 1,
                                !.pages_[frame].is_dirty_ = @ \/ is_dirty]
            IN [b1 EXCEPT !.replacer_ =
                              IF b1.pages_[frame].pin_count_ = 0
                              THEN Unpin(@, frame) ELSE @,
                          !.ok = TRUE]

\* NewPageImpl once a frame is chosen: "read to buffer".
NewPageInto(b, frame) ==
  LET b1 == AllocatePage(b) IN
  [b1 EXCEPT !.pages_[frame] =
                 [page_id_ |-> b1.page, pin_count_ |-> 1, is_dirty_ |-> FALSE,
                  data_ |-> ZeroData],
             !.replacer_ = Pin(@, frame),
             !.page_table_ = Put(@, b1.page, frame),
             !.frame = frame]

\* NewPageImpl that calls AllocatePage before it looks for a frame.
NewPageImpl_AllocFirst(b) ==
  IF b.fl_latch # 0 \/ b.pg_latch # 0 \/ b.pt_latch # 0 THEN Blocked(b)
  ELSE IF Len(b.free_list_) # 0
  THEN NewPageInto([b EXCEPT !.free_list_ = Tail(@)], Head(b.free_list_))
  ELSE LET v == Victim(b.replacer_)
           candi == v.frame_id
           b1 == [b EXCEPT !.replacer_ = v.r]
           evict_page == b.pages_[candi].page_id_
           b2 == IF b.pages_[candi].is_dirty_ THEN FlushPageImpl(b1, evict_page)
                 ELSE [b1 EXCEPT !.ok = TRUE]
       IN
       IF ~v.result THEN [AllocatePage(b1) EXCEPT !.frame = NullFrame]
       ELSE IF ~b2.ok THEN [b2 EXCEPT !.frame = NullFrame]
       ELSE NewPageInto([b2 EXCEPT !.page_table_ = Erase(@, evict_page)], candi)

NewPageImpl(b) ==
  IF b.fl_latch # 0 \/ b.pg_latch # 0 \/ b.pt_latch # 0 THEN Blocked(b)
  ELSE IF Len(b.free_list_) # 0
  THEN NewPageInto([b EXCEPT !.free_list_ = Tail(@)], Head(b.free_list_))
  ELSE LET v == Victim(b.replacer_)
           candi == v.frame_id
           b1 == [b EXCEPT !.replacer_ = v.r]
           evict_page == b.pages_[candi].page_id_
           b2 == IF b.pages_[candi].is_dirty_ THEN FlushPageImpl(b1, evict_page)
                 ELSE [b1 EXCEPT !.ok = TRUE]
       IN
       IF ~v.result THEN [b1 EXCEPT !.frame = NullFrame]
       ELSE IF ~b2.ok THEN [b2 EXCEPT !.frame = NullFrame]
       ELSE NewPageInto([b2 EXCEPT !.page_table_ = Erase(@, evict_page)], candi)

\* DeletePageImpl that puts the frame at the front of the free list.
DeletePageImpl_PushFront(b, page_id) ==
  IF b.pt_latch # 0 THEN Blocked(b)
  ELSE IF page_id = INVALID_PAGE_ID \/ page_id \notin DOMAIN b.page_table_
  THEN [b EXCEPT !.ok = TRUE]
  ELSE IF b.pg_latch # 0 THEN Blocked(b)
  ELSE LET target == b.page_table_[page_id] IN
       IF b.pages_[target].pin_count_ # 0 THEN [b EXCEPT !.ok = FALSE]
       ELSE IF b.fl_latch # 0 THEN Blocked(b)
       ELSE [DeallocatePage(b, page_id)
               EXCEPT !.page_table_ = Erase(@, page_id),
                      !.pages_[target].page_id_ = INVALID_PAGE_ID,
                      !.pages_[target].is_dirty_ = FALSE,
                      !.free_list_ = << target >> \o @,
                      !.ok = TRUE]

DeletePageImpl(b, page_id) ==
  IF b.pt_latch # 0 THEN Blocked(b)
  ELSE IF page_id = INVALID_PAGE_ID \/ page_id \notin DOMAIN b.page_table_
  THEN [b EXCEPT !.ok = TRUE]
  ELSE IF b.pg_latch # 0 THEN Blocked(b)
  ELSE LET target == b.page_table_[page_id] IN
       IF b.pages_[target].pin_count_ # 0 THEN [b EXCEPT !.ok = FALSE]
       ELSE IF b.fl_latch # 0 THEN Blocked(b)
       ELSE [DeallocatePage(b, page_id)
               EXCEPT !.page_table_ = Erase(@, page_id),
                      !.pages_[target].page_id_ = INVALID_PAGE_ID,
                      !.pages_[target].is_dirty_ = FALSE,
                      !.free_list_ = Append(@, target),
                      !.ok = TRUE]

\* The loop of FlushAllPagesImpl from frame i on.
RECURSIVE FlushAllFrom(_, _)
FlushAllFrom(b, i) ==
  IF i >= Cardinality(DOMAIN b.pages_) THEN b
  ELSE FlushAllFrom(IF b.pages_[i].is_dirty_
                    THEN FlushPageImpl(b, b.pages_[i].page_id_) ELSE b,
                    i + 1)

FlushAllPagesImpl(b) ==
  IF b.pg_latch # 0 THEN Blocked(b)
  ELSE FlushAllFrom(b, 0)

\* ============================================ Spec: one call at a time
\* The buffer pool manager of the state, as the operators above take it.
BPM ==
  [ pages_ |-> pages_, page_table_ |-> page_table_, free_list_ |-> free_list_,
    replacer_ |-> replacer_, disk |-> disk, next_page_id |-> next_page_id,
    pg_latch |-> pg_latch, pt_latch |-> pt_latch, fl_latch |-> fl_latch,
    frame |-> NullFrame, page |-> INVALID_PAGE_ID, ok |-> FALSE,
    dealloc |-> INVALID_PAGE_ID, blocked |-> FALSE ]

\* The state after a call that returned b.
Install(b) ==
  /\ pages_' = b.pages_
  /\ page_table_' = b.page_table_
  /\ free_list_' = b.free_list_
  /\ replacer_' = b.replacer_
  /\ disk' = b.disk
  /\ next_page_id' = b.next_page_id
  /\ pg_latch' = b.pg_latch
  /\ pt_latch' = b.pt_latch
  /\ fl_latch' = b.fl_latch

\* The state is the buffer pool manager b.
Constructed(b) ==
  /\ pages_ = b.pages_
  /\ page_table_ = b.page_table_
  /\ free_list_ = b.free_list_
  /\ replacer_ = b.replacer_
  /\ disk = b.disk
  /\ next_page_id = b.next_page_id
  /\ pg_latch = b.pg_latch
  /\ pt_latch = b.pt_latch
  /\ fl_latch = b.fl_latch

\* What the state keeps of the call that returned last: the operation, the
\* frame or the boolean it returned, and the page id handed to DeallocatePage.
Returned(op, b) ==
  [op |-> op, frame |-> b.frame, ok |-> b.ok, dealloc |-> b.dealloc]

NoCall == [op |-> "none", frame |-> NullFrame, ok |-> FALSE, dealloc |-> INVALID_PAGE_ID]
NoSnap == [has |-> FALSE, data |-> ZeroData]

\* The threads of ConcSpec, and a thread that is in no call.
Threads == {1, 2}
Idle == [pc |-> "idle", page_id |-> INVALID_PAGE_ID, is_dirty |-> FALSE]

\* No thread is in a call and no hash table is constructed.
NoTable ==
  /\ thr = [t \in Threads |-> Idle]
  /\ header_page_id_ = INVALID_PAGE_ID
  /\ table_latch_ = 0

\* The buffer pool manager as constructed; snap and stale follow no page.
Init ==
  /\ Constructed(BufferPoolManager(PoolSize))
  /\ last = NoCall
  /\ tracked = INVALID_PAGE_ID
  /\ snap = NoSnap
  /\ stale = FALSE
  /\ NoTable

\* The page ids callers name: those AllocatePage has returned.
Allocated == 0 .. (next_page_id - 1)

\* A caller that holds a pin on page_id writes its frame's data.
Write(page_id, data) ==
  /\ page_id = tracked
  /\ page_id \in DOMAIN page_table_
  /\ pages_[page_table_[page_id]].pin_count_ > 0
  /\ pages_[page_table_[page_id]].data_ # data
  /\ pages_' = [pages_ EXCEPT ![page_table_[page_id]].data_ = data]
  /\ stale' = (stale \/ page_id = tracked)
  /\ last' = [NoCall EXCEPT !.op = "Write"]
  /\ UNCHANGED << page_table_, free_list_, replacer_, disk, next_page_id,
                  pg_latch, pt_latch, fl_latch, tracked, snap, thr, hashVars >>

FetchPage(page_id) ==
  LET b == FetchPageImpl(BPM, page_id) IN
  /\ page_id \in Allocated
  /\ ~b.blocked
  /\ b.frame # NullFrame => b.pages_[b.frame].pin_count_ <= MaxPin
  /\ Install(b)
  /\ last' = Returned("FetchPage", b)
  /\ UNCHANGED << ghostVars, thr, hashVars >>

NewPage ==
  LET b == NewPageImpl(BPM) IN
  /\ ~b.blocked
  /\ b.next_page_id <= MaxPages
  /\ Install(b)
  /\ last' = Returned("NewPage", b)
  /\ UNCHANGED << ghostVars, thr, hashVars >>

UnpinPage(page_id, is_dirty) ==
  LET b == UnpinPageImpl(BPM, page_id, is_dirty) IN
  /\ page_id \in Allocated
  /\ ~b.blocked
  /\ Install(b)
  /\ last' = Returned("UnpinPage", b)
  /\ IF is_dirty /\ b.ok /\ page_id = tracked /\ page_id \in DOMAIN page_table_
     THEN /\ snap' = [has |-> TRUE, data |-> pages_[page_table_[page_id]].data_]
          /\ stale' = FALSE
     ELSE UNCHANGED << snap, stale >>
  /\ UNCHANGED << tracked, thr, hashVars >>

FlushPage(page_id) ==
  LET b == FlushPageImpl(BPM, page_id) IN
  /\ page_id \in Allocated
  /\ Install(b)
  /\ last' = Returned("FlushPage", b)
  /\ UNCHANGED << ghostVars, thr, hashVars >>

DeletePage(page_id) ==
  LET b == DeletePageImpl(BPM, page_id) IN
  /\ page_id \in Allocated \cup {INVALID_PAGE_ID}
  /\ ~b.blocked
  /\ Install(b)
  /\ last' = Returned("DeletePage", b)
  /\ stale' = (stale \/ (b.dealloc = tracked /\ tracked # INVALID_PAGE_ID))
  /\ UNCHANGED << tracked, snap, thr, hashVars >>

FlushAllPages ==
  LET b == FlushAllPagesImpl(BPM) IN
  /\ ~b.blocked
  /\ Install(b)
  /\ last' = Returned("FlushAllPages", b)
  /\ UNCHANGED << ghostVars, thr, hashVars >>

\* The calls of the buffer pool manager's public interface.
Call ==
  \/ \E page_id \in PageIds : FetchPage(page_id)
  \/ NewPage
  \/ \E page_id \in PageIds, is_dirty \in BOOLEAN : UnpinPage(page_id, is_dirty)
  \/ \E page_id \in PageIds : FlushPage(page_id)
  \/ \E page_id \in DiskPageIds : DeletePage(page_id)
  \/ FlushAllPages

\* A caller's FetchPage(page_id) immediately followed by its
\* UnpinPage(page_id, false), as GetSize does with the header page.
FetchThenUnpin(page_id) ==
  LET b1 == FetchPageImpl(BPM, page_id)
      b2 == UnpinPageImpl(b1, page_id, FALSE)
  IN
  /\ page_id \in Allocated /\ page_id \in DOMAIN page_table_
  /\ ~b1.blocked /\ ~b2.blocked
  /\ b1.pages_[b1.frame].pin_count_ <= MaxPin
  /\ Install(b2)
  /\ last' = Returned("FetchPage;UnpinPage", b2)
  /\ UNCHANGED << ghostVars, thr, hashVars >>

Next ==
  \/ Call
  \/ \E page_id \in PageIds : FetchThenUnpin(page_id)

Spec == Init /\ [][Next]_vars

\* The same calls on a pool of DataPoolSize frames, by callers that also write
\* one page's frame while they have it pinned; snap and stale follow that page,
\* which is any of the pages.
DataInit ==
  /\ Constructed(BufferPoolManager(DataPoolSize))
  /\ last = NoCall
  /\ tracked \in PageIds
  /\ snap = NoSnap
  /\ stale = FALSE
  /\ NoTable

DataNext ==
  \/ Call
  \/ \E page_id \in PageIds, data \in DataVals \cup {ZeroData} : Write(page_id, data)

DataSpec == DataInit /\ [][DataNext]_vars

\* ================================== ConcSpec: one latch acquisition at a time
\* A latch another thread holds, as the operators above see it.
Busy == -1

\* The buffer pool manager as thread t sees it: the latches t holds are its own
\* to pass, the latches other threads hold are taken.
Mine(t) ==
  LET see(l) == IF l = 0 \/ l = t THEN 0 ELSE Busy IN
  [BPM EXCEPT !.pg_latch = see(pg_latch), !.pt_latch = see(pt_latch),
              !.fl_latch = see(fl_latch)]

\* A latch after thread t's call returned: another thread's latch is untouched,
\* a latch the call left locked stays with t, any other latch is free.
AfterReturn(t, old, new) ==
  IF old # 0 /\ old # t THEN old ELSE IF new = Caller THEN t ELSE 0

\* Thread t's call returns with the buffer pool manager b.
Return(t, b) ==
  /\ ~b.blocked
  /\ Install([b EXCEPT !.pg_latch = AfterReturn(t, pg_latch, b.pg_latch),
                       !.pt_latch = AfterReturn(t, pt_latch, b.pt_latch),
                       !.fl_latch = AfterReturn(t, fl_latch, b.fl_latch)])
  /\ thr' = [thr EXCEPT ![t] = Idle]
  /\ UNCHANGED << last, ghostVars, hashVars >>

\* Thread t has locked latches and goes on to lock the one pc names.
Goto(t, pc, page_id, is_dirty) ==
  /\ thr' = [thr EXCEPT ![t] = [pc |-> pc, page_id |-> page_id, is_dirty |-> is_dirty]]
  /\ UNCHANGED << pages_, page_table_, free_list_, replacer_, disk, next_page_id,
                  last, ghostVars, hashVars >>

\* The calls in flight that will pin page_id, and that will allocate a page id.
Fetching(page_id) ==
  Cardinality({u \in Threads : /\ thr[u].pc \in {"Fetch_pt", "Fetch_fl"}
                               /\ thr[u].page_id = page_id})
Allocating == Cardinality({u \in Threads : thr[u].pc \in {"New_pg", "New_pt"}})
PinsOf(page_id) ==
  IF page_id \in DOMAIN page_table_ THEN pages_[page_table_[page_id]].pin_count_ ELSE 0

\* FetchPageImpl: pg_latch.lock().
FetchLockPg(t, page_id) ==
  /\ thr[t].pc = "idle" /\ page_id \in Allocated
  /\ PinsOf(page_id) + Fetching(page_id) < MaxPin
  /\ pg_latch = 0 /\ pg_latch' = t
  /\ Goto(t, "Fetch_pt", page_id, FALSE)
  /\ UNCHANGED << pt_latch, fl_latch >>

\* FetchPageImpl: pt_latch.lock(), and the whole call when the page is resident.
FetchLockPt(t) ==
  /\ thr[t].pc = "Fetch_pt" /\ pt_latch = 0
  /\ IF thr[t].page_id \in DOMAIN page_table_
     THEN Return(t, FetchPageImpl(Mine(t), thr[t].page_id))
     ELSE /\ pt_latch' = t
          /\ Goto(t, "Fetch_fl", thr[t].page_id, FALSE)
          /\ UNCHANGED << pg_latch, fl_latch >>

\* FetchPageImpl: fl_latch.lock() and the rest of the call.
FetchLockFl(t) ==
  /\ thr[t].pc = "Fetch_fl" /\ fl_latch = 0
  /\ Return(t, FetchPageImpl(Mine(t), thr[t].page_id))

\* NewPageImpl: fl_latch.lock().
NewLockFl(t) ==
  /\ thr[t].pc = "idle"
  /\ next_page_id + Allocating < MaxPages
  /\ fl_latch = 0 /\ fl_latch' = t
  /\ Goto(t, "New_pg", INVALID_PAGE_ID, FALSE)
  /\ UNCHANGED << pg_latch, pt_latch >>

\* NewPageImpl: pg_latch.lock().
NewLockPg(t) ==
  /\ thr[t].pc = "New_pg"
  /\ pg_latch = 0 /\ pg_latch' = t
  /\ Goto(t, "New_pt", INVALID_PAGE_ID, FALSE)
  /\ UNCHANGED << pt_latch, fl_latch >>

\* NewPageImpl: pt_latch.lock() and the rest of the call.
NewLockPt(t) ==
  /\ thr[t].pc = "New_pt" /\ pt_latch = 0
  /\ Return(t, NewPageImpl(Mine(t)))

\* UnpinPageImpl: pt_latch.lock(), and the whole call when the page is absent.
UnpinLockPt(t, page_id, is_dirty) ==
  /\ thr[t].pc = "idle" /\ page_id \in Allocated
  /\ pt_latch = 0
  /\ IF page_id \notin DOMAIN page_table_
     THEN Return(t, UnpinPageImpl(Mine(t), page_id, is_dirty))
     ELSE /\ pt_latch' = t
          /\ Goto(t, "Unpin_pg", page_id, is_dirty)
          /\ UNCHANGED << pg_latch, fl_latch >>

\* UnpinPageImpl: pg_latch.lock() and the rest of the call.
UnpinLockPg(t) ==
  /\ thr[t].pc = "Unpin_pg" /\ pg_latch = 0
  /\ Return(t, UnpinPageImpl(Mine(t), thr[t].page_id, thr[t].is_dirty))

\* DeletePageImpl: pt_latch.lock(), and the whole call when the page is absent.
DeleteLockPt(t, page_id) ==
  /\ thr[t].pc = "idle" /\ page_id \in Allocated \cup {INVALID_PAGE_ID}
  /\ pt_latch = 0
  /\ IF page_id = INVALID_PAGE_ID \/ page_id \notin DOMAIN page_table_
     THEN Return(t, DeletePageImpl(Mine(t), page_id))
     ELSE /\ pt_latch' = t
          /\ Goto(t, "Delete_pg", page_id, FALSE)
          /\ UNCHANGED << pg_latch, fl_latch >>

\* DeletePageImpl: pg_latch.lock(), and the rest of the call when the page is pinned.
DeleteLockPg(t) ==
  /\ thr[t].pc = "Delete_pg" /\ pg_latch = 0
  /\ IF PinsOf(thr[t].page_id) # 0
     THEN Return(t, DeletePageImpl(Mine(t), thr[t].page_id))
     ELSE /\ pg_latch' = t
          /\ Goto(t, "Delete_fl", thr[t].page_id, FALSE)
          /\ UNCHANGED << pt_latch, fl_latch >>

\* DeletePageImpl: fl_latch.lock() and the rest of the call.
DeleteLockFl(t) ==
  /\ thr[t].pc = "Delete_fl" /\ fl_latch = 0
  /\ Return(t, DeletePageImpl(Mine(t), thr[t].page_id))

\* FlushAllPagesImpl: pg_latch.lock() and the whole call.
FlushAllLockPg(t) ==
  /\ thr[t].pc = "idle" /\ pg_latch = 0
  /\ Return(t, FlushAllPagesImpl(Mine(t)))

ConcNext ==
  \E t \in Threads :
    \/ \E page_id \in PageIds : FetchLockPg(t, page_id)
    \/ FetchLockPt(t)
    \/ FetchLockFl(t)
    \/ NewLockFl(t)
    \/ NewLockPg(t)
    \/ NewLockPt(t)
    \/ \E page_id \in PageIds, is_dirty \in BOOLEAN : UnpinLockPt(t, page_id, is_dirty)
    \/ UnpinLockPg(t)
    \/ \E page_id \in DiskPageIds : DeleteLockPt(t, page_id)
    \/ DeleteLockPg(t)
    \/ DeleteLockFl(t)
    \/ FlushAllLockPg(t)

ConcSpec == Init /\ [][ConcNext]_vars

\* ============ RaceSpec: ConcSpec with FlushPage, one memory access at a time
\* FlushPageImpl locks no latch; its steps are its accesses to the page table
\* and to the frame. Thread t is in FlushPage(page_id) at pc, with frame read.
FlushGoto(t, pc, frame) ==
  thr' = [thr EXCEPT ![t] = [pc |-> pc, page_id |-> thr[t].page_id,
                             is_dirty |-> FALSE, frame |-> frame]]

\* FlushPage(page_id) is called.
FlushCall(t, page_id) ==
  /\ thr[t].pc = "idle" /\ page_id \in Allocated
  /\ thr' = [thr EXCEPT ![t] = [pc |-> "Flush_find", page_id |-> page_id,
                                is_dirty |-> FALSE, frame |-> NullFrame]]
  /\ UNCHANGED << bpmVars, last, ghostVars, hashVars >>

\* FlushPageImpl, lines 158-163: page_table_.find and page_table_[page_id].
FlushFind(t) ==
  /\ thr[t].pc = "Flush_find"
  /\ IF thr[t].page_id \notin DOMAIN page_table_
     THEN thr' = [thr EXCEPT ![t] = Idle]
     ELSE FlushGoto(t, "Flush_IsDirty", page_table_[thr[t].page_id])
  /\ UNCHANGED << bpmVars, last, ghostVars, hashVars >>

\* FlushPageImpl, line 165: pages_[frame].IsDirty().
FlushIsDirty(t) ==
  /\ thr[t].pc = "Flush_IsDirty"
  /\ IF ~pages_[thr[t].frame].is_dirty_
     THEN thr' = [thr EXCEPT ![t] = Idle]
     ELSE FlushGoto(t, "Flush_WritePage", thr[t].frame)
  /\ UNCHANGED << bpmVars, last, ghostVars, hashVars >>

\* FlushPageImpl, lines 170-171: WritePage of the frame's data under page_id,
\* and is_dirty_ = false.
FlushWritePage(t) ==
  /\ thr[t].pc = "Flush_WritePage"
  /\ disk' = WritePage(BPM, thr[t].page_id, pages_[thr[t].frame].data_).disk
  /\ pages_' = [pages_ EXCEPT ![thr[t].frame].is_dirty_ = FALSE]
  /\ thr' = [thr EXCEPT ![t] = Idle]
  /\ UNCHANGED << page_table_, free_list_, replacer_, next_page_id,
                  pg_latch, pt_latch, fl_latch, last, ghostVars, hashVars >>

RaceNext ==
  \/ ConcNext
  \/ \E t \in Threads, page_id \in PageIds : FlushCall(t, page_id)
  \/ \E t \in Threads : FlushFind(t)
  \/ \E t \in Threads : FlushIsDirty(t)
  \/ \E t \in Threads : FlushWritePage(t)

RaceSpec == Init /\ [][RaceNext]_vars

\* ==================================================== hash table block page
\* sizeof(occupied_) and sizeof(readable_): one bit per slot.
BitmapBytes == (BLOCK_ARRAY_SIZE - 1) \div 8 + 1

KeyAt(d, bucket_ind) == d.array_[bucket_ind][1]
ValueAt(d, bucket_ind) == d.array_[bucket_ind][2]

IsOccupied(d, bucket_ind) ==
  IF bucket_ind \div 8 >= BitmapBytes THEN FALSE ELSE bucket_ind \in d.occupied_

IsReadable(d, bucket_ind) ==
  IF bucket_ind \div 8 >= BitmapBytes THEN FALSE ELSE bucket_ind \in d.readable_

\* HashTableBlockPage::Insert that takes any slot that is not readable, a
\* tombstone included.
BlockInsert_ReuseTombstone(d, bucket_ind, key, value) ==
  IF IsReadable(d, bucket_ind) THEN [d |-> d, ok |-> FALSE]
  ELSE [d |-> [d EXCEPT !.occupied_ = @ \cup {bucket_ind},
                        !.readable_ = @ \cup {bucket_ind},
                        !.array_[bucket_ind] = << key, value >>],
        ok |-> TRUE]

\* HashTableBlockPage::Insert: the page afterwards and what it returned.
BlockInsert(d, bucket_ind, key, value) ==
  IF IsOccupied(d, bucket_ind) THEN [d |-> d, ok |-> FALSE]
  ELSE [d |-> [d EXCEPT !.occupied_ = @ \cup {bucket_ind},
                        !.readable_ = @ \cup {bucket_ind},
                        !.array_[bucket_ind] = << key, value >>],
        ok |-> TRUE]

\* HashTableBlockPage::Remove that frees the slot: both bits are cleared.
BlockRemove_ClearOccupied(d, bucket_ind) ==
  IF bucket_ind \div 8 >= BitmapBytes THEN d
  ELSE [d EXCEPT !.readable_ = @ \ {bucket_ind}, !.occupied_ = @ \ {bucket_ind}]

\* HashTableBlockPage::Remove.
BlockRemove(d, bucket_ind) ==
  IF bucket_ind \div 8 >= BitmapBytes THEN d
  ELSE [d EXCEPT !.readable_ = @ \ {bucket_ind}]

\* ================================================== hash table header page
SetSize(d, size) == [d EXCEPT !.size_ = size]
SetPageId(d, page_id) == [d EXCEPT !.page_id_ = page_id]
HeaderGetSize(d) == d.size_
NumBlocks(d) == Len(d.block_page_ids_)
AddBlockPageId(d, page_id) == [d EXCEPT !.block_page_ids_ = Append(@, page_id)]
GetBlockPageId(d, index) ==
  IF index < Len(d.block_page_ids_) THEN d.block_page_ids_[index + 1]
  ELSE INVALID_PAGE_ID

\* ======================================================= linear probe table
Keys == 0 .. MaxKey
Values == 0 .. MaxVal
\* num_buckets of the constructor: every bucket's block page can be allocated.
NumBuckets == 1 .. (MaxPages - 1)

\* hash_fn_.GetHash.
GetHash(key) == 5 * key + 2

\* The hash table over the buffer pool manager b, with the result of the call
\* made last. undefined: the call dereferenced nullptr, used an indeterminate
\* page id, or waits on a latch forever.
HashTable(b, header, latch) ==
  [ b |-> b, header_page_id_ |-> header, table_latch_ |-> latch,
    ok |-> FALSE, result |-> << >>, undefined |-> FALSE ]

Undefined(h) == [h EXCEPT !.undefined = TRUE]
Null(b) == b.blocked \/ b.frame = NullFrame

\* The data of the page in frame f of b, and b with that data replaced.
DataOf(b, f) == b.pages_[f].data_
WithData(b, f, d) == [b EXCEPT !.pages_[f].data_ = d]

\* The call returns from the hash table h with the buffer pool manager b.
Done(h, b, ok, result) ==
  [h EXCEPT !.b = b, !.undefined = b.blocked, !.ok = ok, !.result = result]

\* idx and offset of a key, under the header page d.
BlockIndex(d, key) == GetHash(key) % HeaderGetSize(d)
SlotOffset(key) == GetHash(key) % BLOCK_ARRAY_SIZE

\* The constructor, from the return of NewPage on.
ConstructOn(n, num_buckets) ==
  IF Null(n) THEN Undefined(HashTable(n, INVALID_PAGE_ID, 0))
  ELSE Done(HashTable(n, n.page, 0),
            UnpinPageImpl(WithData(n, n.frame,
                                   SetPageId(SetSize(DataOf(n, n.frame), num_buckets),
                                             n.page)),
                          n.page, TRUE),
            TRUE, << >>)

LinearProbeHashTableImpl(b, num_buckets) == ConstructOn(NewPageImpl(b), num_buckets)

\* The loop of GetValue from slot iter on: the values found.
RECURSIVE GetValueLoop(_, _, _)
GetValueLoop(d, iter, key) ==
  IF iter >= BLOCK_ARRAY_SIZE THEN << >>
  ELSE (IF IsReadable(d, iter) /\ KeyAt(d, iter) = key
        THEN << ValueAt(d, iter) >> ELSE << >>)
       \o GetValueLoop(d, iter + 1, key)

\* GetValue from the return of FetchPage(bucket_id) on.
GetValueInBucket(h, g, bucket_id, found) ==
  IF Null(g) THEN Undefined(h)
  ELSE Done(h, UnpinPageImpl(UnpinPageImpl(g, bucket_id, FALSE),
                             h.header_page_id_, FALSE),
            found # << >>, found)

\* GetValue from table_latch_.RLock() on; the latch is released before it returns.
GetValueOfBucket(h, f, bucket_id, key) ==
  IF bucket_id # INVALID_PAGE_ID
  THEN LET g == FetchPageImpl(f, bucket_id) IN
       GetValueInBucket(h, g, bucket_id,
                        IF Null(g) THEN << >>
                        ELSE GetValueLoop(DataOf(g, g.frame), SlotOffset(key), key))
  ELSE Done(h, UnpinPageImpl(f, h.header_page_id_, FALSE), FALSE, << >>)

\* GetValue from the return of FetchPage(header_page_id_) on.
GetValueUnder(h, f, key) ==
  IF Null(f) THEN Undefined(h)
  ELSE GetValueOfBucket(h, f,
                        GetBlockPageId(DataOf(f, f.frame),
                                       BlockIndex(DataOf(f, f.frame), key)),
                        key)

GetValueImpl(h, key) == GetValueUnder(h, FetchPageImpl(h.b, h.header_page_id_), key)

\* The first loop of Insert: new block pages until the header page in frame hf
\* holds entry idx. ok is FALSE when NewPage returned nullptr (tmp is indeterminate).
RECURSIVE AddBlocks(_, _, _)
AddBlocks(b, hf, idx) ==
  IF b.blocked THEN [b EXCEPT !.ok = FALSE]
  ELSE IF NumBlocks(DataOf(b, hf)) > idx THEN [b EXCEPT !.ok = TRUE]
  ELSE LET n == NewPageImpl(b) IN
       IF Null(n) THEN [n EXCEPT !.ok = FALSE]
       ELSE AddBlocks(UnpinPageImpl(WithData(n, hf, AddBlockPageId(DataOf(n, hf), n.page)),
                                    n.page, FALSE),
                      hf, idx)

\* The second loop of Insert without the test for a live slot that holds the pair.
RECURSIVE InsertLoop_NoDuplicateTest(_, _, _, _, _)
InsertLoop_NoDuplicateTest(d, iter, key, value, ins_suc) ==
  IF ~(iter < BLOCK_ARRAY_SIZE /\ ~ins_suc) THEN [d |-> d, ok |-> ins_suc]
  ELSE LET r == BlockInsert(d, iter, key, value) IN
       InsertLoop_NoDuplicateTest(r.d, iter + 1, key, value, r.ok)

\* The second loop of Insert from slot iter on: the block page afterwards and ins_suc.
RECURSIVE InsertLoop(_, _, _, _, _)
InsertLoop(d, iter, key, value, ins_suc) ==
  IF ~(iter < BLOCK_ARRAY_SIZE /\ ~ins_suc) THEN [d |-> d, ok |-> ins_suc]
  ELSE LET r == BlockInsert(d, iter, key, value) IN
       IF IsReadable(r.d, iter) /\ KeyAt(r.d, iter) = key /\ ValueAt(r.d, iter) = value
       THEN r
       ELSE InsertLoop(r.d, iter + 1, key, value, r.ok)

\* Insert from the end of the second loop on, with the loop's outcome r.
InsertFinish(h, g, bucket_id, r) ==
  Done(h, UnpinPageImpl(UnpinPageImpl(WithData(g, g.frame, r.d), bucket_id, TRUE),
                        h.header_page_id_, TRUE),
       r.ok, << >>)

\* Insert from the return of FetchPage(bucket_id) on.
InsertInBucket(h, g, bucket_id, key, value) ==
  IF Null(g) THEN Undefined(h)
  ELSE InsertFinish(h, g, bucket_id,
                    InsertLoop(DataOf(g, g.frame), SlotOffset(key), key, value, FALSE))

\* Insert from the end of the first loop on; the header page is in frame hf.
InsertOfBucket(h, a, bucket_id, key, value) ==
  IF ~a.ok THEN Undefined(h)
  ELSE InsertInBucket(h, FetchPageImpl(a, bucket_id), bucket_id, key, value)

\* Insert from the return of FetchPage(header_page_id_) on.
InsertUnder(h, f, idx, key, value) ==
  LET a == AddBlocks(f, f.frame, idx) IN
  InsertOfBucket(h, a, IF a.ok THEN GetBlockPageId(DataOf(a, f.frame), idx)
                       ELSE INVALID_PAGE_ID,
                 key, value)

InsertHeader(h, f, key, value) ==
  IF Null(f) THEN Undefined(h)
  ELSE InsertUnder(h, f, BlockIndex(DataOf(f, f.frame), key), key, value)

InsertImpl(h, key, value) ==
  InsertHeader(h, FetchPageImpl(h.b, h.header_page_id_), key, value)

\* The loop of Remove comparing the key only, not the value.
RECURSIVE RemoveLoop_KeyOnly(_, _, _, _)
RemoveLoop_KeyOnly(d, offset, key, value) ==
  IF offset >= BLOCK_ARRAY_SIZE THEN [d |-> d, offset |-> offset]
  ELSE IF IsReadable(d, offset) /\ KeyAt(d, offset) = key
  THEN [d |-> BlockRemove(d, offset), offset |-> offset]
  ELSE RemoveLoop_KeyOnly(d, offset + 1, key, value)

\* The loop of Remove from slot offset on: the block page afterwards and the
\* value of offset when the loop ends.
RECURSIVE RemoveLoop(_, _, _, _)
RemoveLoop(d, offset, key, value) ==
  IF offset >= BLOCK_ARRAY_SIZE THEN [d |-> d, offset |-> offset]
  ELSE IF IsReadable(d, offset) /\ KeyAt(d, offset) = key /\ ValueAt(d, offset) = value
  THEN [d |-> BlockRemove(d, offset), offset |-> offset]
  ELSE RemoveLoop(d, offset + 1, key, value)

\* Remove from the end of the loop on, with the loop's outcome r.
RemoveFinish(h, g, bucket_id, r) ==
  Done(h, UnpinPageImpl(UnpinPageImpl(WithData(g, g.frame, r.d), bucket_id, TRUE),
                        h.header_page_id_, FALSE),
       r.offset < BLOCK_ARRAY_SIZE, << >>)

\* Remove from the return of FetchPage(bucket_id) on; table_latch_ is held
\* for reading, and released before every return but the first.
RemoveInBucket(h, g, bucket_id, key, value) ==
  IF g.blocked THEN Undefined(h)
  ELSE IF bucket_id = INVALID_PAGE_ID
  THEN [h EXCEPT !.b = g, !.table_latch_ = @ + 1, !.ok = FALSE, !.result = << >>]
  ELSE IF Null(g) THEN Undefined(h)
  ELSE RemoveFinish(h, g, bucket_id,
                    RemoveLoop(DataOf(g, g.frame), SlotOffset(key), key, value))

\* Remove from the return of FetchPage(header_page_id_) on.
RemoveOfBucket(h, f, bucket_id, key, value) ==
  RemoveInBucket(h, FetchPageImpl(f, bucket_id), bucket_id, key, value)

RemoveUnder(h, f, key, value) ==
  IF Null(f) THEN Undefined(h)
  ELSE RemoveOfBucket(h, f,
                      GetBlockPageId(DataOf(f, f.frame),
                                     BlockIndex(DataOf(f, f.frame), key)),
                      key, value)

RemoveImpl(h, key, value) ==
  RemoveUnder(h, FetchPageImpl(h.b, h.header_page_id_), key, value)

\* GetSize from the return of FetchPage(header_page_id_) on.
GetSizeUnder(h, f) ==
  IF Null(f) THEN Undefined(h)
  ELSE Done(h, UnpinPageImpl(f, h.header_page_id_, FALSE), TRUE,
            << NumBlocks(DataOf(f, f.frame)) >>)

GetSizeImpl(h) == GetSizeUnder(h, FetchPageImpl(h.b, h.header_page_id_))

\* ==================================== HashSpec: one hash table call at a time
HT == HashTable(BPM, header_page_id_, table_latch_)

\* The state after a hash table call that returned h: the call had a defined
\* outcome, within the caps on pin counts and page ids.
Completes(op, h) ==
  /\ ~h.undefined
  /\ h.b.next_page_id <= MaxPages
  /\ \A f \in DOMAIN h.b.pages_ : h.b.pages_[f].pin_count_ <= MaxPin
  /\ Install(h.b)
  /\ header_page_id_' = h.header_page_id_
  /\ table_latch_' = h.table_latch_
  /\ last' = [op |-> op, frame |-> NullFrame, ok |-> h.ok, dealloc |-> INVALID_PAGE_ID]
  /\ UNCHANGED << ghostVars, thr >>

LinearProbeHashTable(num_buckets) ==
  /\ header_page_id_ = INVALID_PAGE_ID
  /\ Completes("LinearProbeHashTable", LinearProbeHashTableImpl(BPM, num_buckets))

GetValue(key) ==
  /\ header_page_id_ # INVALID_PAGE_ID
  /\ Completes("GetValue", GetValueImpl(HT, key))

Insert(key, value) ==
  /\ header_page_id_ # INVALID_PAGE_ID
  /\ Completes("Insert", InsertImpl(HT, key, value))

Remove(key, value) ==
  /\ header_page_id_ # INVALID_PAGE_ID
  /\ Completes("Remove", RemoveImpl(HT, key, value))

GetSize ==
  /\ header_page_id_ # INVALID_PAGE_ID
  /\ Completes("GetSize", GetSizeImpl(HT))

HashInit ==
  /\ Constructed(BufferPoolManager(HashPoolSize))
  /\ last = NoCall
  /\ tracked = INVALID_PAGE_ID
  /\ snap = NoSnap
  /\ stale = FALSE
  /\ NoTable

HashNext ==
  \/ \E num_buckets \in NumBuckets : LinearProbeHashTable(num_buckets)
  \/ \E key \in Keys : GetValue(key)
  \/ \E key \in Keys, value \in Values : Insert(key, value)
  \/ \E key \in Keys, value \in Values : Remove(key, value)
  \/ GetSize

HashSpec == HashInit /\ [][HashNext]_vars

\* Under HashSpec every hash table call has a defined outcome: with
\* HashPoolSize frames no FetchPage or NewPage of a call returns nullptr.
NoUndefinedCall ==
  header_page_id_ # INVALID_PAGE_ID =>
    /\ ~GetSizeImpl(HT).undefined
    /\ \A key \in Keys : ~GetValueImpl(HT, key).undefined
    /\ \A key \in Keys, value \in Values :
         ~InsertImpl(HT, key, value).undefined /\ ~RemoveImpl(HT, key, value).undefined

\* ============ TightSpec: the hash table on the smallest pool that serves it
\* A call pins the header page and one block page at a time: two frames.
TightPoolSize == 2

TightInit ==
  /\ Constructed(BufferPoolManager(TightPoolSize))
  /\ last = NoCall
  /\ tracked = INVALID_PAGE_ID
  /\ snap = NoSnap
  /\ stale = FALSE
  /\ NoTable

TightSpec == TightInit /\ [][HashNext]_vars

\* ===================================== ReplacerSpec: a ClockReplacer alone
\* A replacer of 3 to NumPages frames; its callers pass frame ids up to its
\* size, the first id past the end. The pool's variables keep their initial values.
NumPages == 3

ReplacerInit ==
  /\ \E num_pages \in 3 .. NumPages :
       Constructed([BufferPoolManager(PoolSize) EXCEPT
                      !.replacer_ = ClockReplacer(num_pages)])
  /\ last = NoCall
  /\ tracked = INVALID_PAGE_ID
  /\ snap = NoSnap
  /\ stale = FALSE
  /\ NoTable

ReplacerCall(op, r, result, frame_id) ==
  /\ replacer_' = r
  /\ last' = [op |-> op, frame |-> frame_id, ok |-> result, dealloc |-> INVALID_PAGE_ID]
  /\ UNCHANGED << pages_, page_table_, free_list_, disk, next_page_id,
                  pg_latch, pt_latch, fl_latch, ghostVars, thr, hashVars >>

VictimCall ==
  ReplacerCall("Victim", Victim(replacer_).r, Victim(replacer_).result,
               Victim(replacer_).frame_id)
PinCall(frame_id) == ReplacerCall("Pin", Pin(replacer_, frame_id), TRUE, frame_id)
UnpinCall(frame_id) == ReplacerCall("Unpin", Unpin(replacer_, frame_id), TRUE, frame_id)

ReplacerNext ==
  \/ VictimCall
  \/ \E frame_id \in 0 .. buffer_size(replacer_) : PinCall(frame_id)
  \/ \E frame_id \in 0 .. buffer_size(replacer_) : UnpinCall(frame_id)

ReplacerSpec == ReplacerInit /\ [][ReplacerNext]_vars

\* ======= AnyIdSpec: the replacer with callers that pass any frame id
\* The replacers of r's size. frame_id_t is signed and Pin and Unpin test
\* frame_id >= buffer_size only: with a frame id below 0 they index in_f and
\* ref_f before their first element, which leaves the replacer in any state.
ReplacerStates(r) ==
  [ clock_hand : 0 .. (buffer_size(r) - 1),
    ref_f : [DOMAIN r.ref_f -> BOOLEAN],
    in_f : [DOMAIN r.in_f -> BOOLEAN] ]
PinOutcomes(r, frame_id) ==
  IF frame_id < 0 THEN ReplacerStates(r) ELSE {Pin(r, frame_id)}
UnpinOutcomes(r, frame_id) ==
  IF frame_id < 0 THEN ReplacerStates(r) ELSE {Unpin(r, frame_id)}

PinAnyId(frame_id) ==
  \E r \in PinOutcomes(replacer_, frame_id) : ReplacerCall("Pin", r, TRUE, frame_id)
UnpinAnyId(frame_id) ==
  \E r \in UnpinOutcomes(replacer_, frame_id) : ReplacerCall("Unpin", r, TRUE, frame_id)

AnyIdNext ==
  \/ VictimCall
  \/ \E frame_id \in -1 .. buffer_size(replacer_) : PinAnyId(frame_id)
  \/ \E frame_id \in -1 .. buffer_size(replacer_) : UnpinAnyId(frame_id)

AnyIdSpec == ReplacerInit /\ [][AnyIdNext]_vars

\* ============ SharedSpec: two threads Insert under the shared table latch
\* Insert up to the return of FetchPage(bucket_id): the buffer pool manager
\* afterwards, with the block page's frame in frame and bucket_id in page;
\* blocked when a FetchPage or NewPage returned nullptr.
EnterFetched(g, bucket_id) ==
  IF Null(g) THEN [g EXCEPT !.blocked = TRUE] ELSE [g EXCEPT !.page = bucket_id]

EnterAdded(a, hf, idx) ==
  IF ~a.ok THEN [a EXCEPT !.blocked = TRUE]
  ELSE EnterFetched(FetchPageImpl(a, GetBlockPageId(DataOf(a, hf), idx)),
                    GetBlockPageId(DataOf(a, hf), idx))

EnterHeader(f, key) ==
  IF Null(f) THEN [f EXCEPT !.blocked = TRUE]
  ELSE EnterAdded(AddBlocks(f, f.frame, BlockIndex(DataOf(f, f.frame), key)),
                  f.frame, BlockIndex(DataOf(f, f.frame), key))

InsertEnter(b, header, key) == EnterHeader(FetchPageImpl(b, header), key)

\* The block page thread t has fetched, and the pool with that page replaced.
Bucket(t) == pages_[page_table_[thr[t].bucket_id]].data_
BucketBecomes(t, d) ==
  /\ pages_' = [pages_ EXCEPT ![page_table_[thr[t].bucket_id]].data_ = d]
  /\ UNCHANGED << page_table_, free_list_, replacer_, disk, next_page_id,
                  pg_latch, pt_latch, fl_latch >>

\* The free slots Insert(key, value) can take in the block page d: none when
\* the pair is live there already.
Room(d, key, value) ==
  IF \E i \in Slots : i >= SlotOffset(key) /\ IsReadable(d, i)
                      /\ KeyAt(d, i) = key /\ ValueAt(d, i) = value
  THEN 0
  ELSE Cardinality({i \in Slots : i >= SlotOffset(key) /\ ~IsOccupied(d, i)})

\* Thread t goes on in its Insert at pc, with iter and ins_suc.
InsertGoto(t, pc, iter, ins_suc) ==
  thr' = [thr EXCEPT ![t].pc = pc, ![t].iter = iter, ![t].ins_suc = ins_suc]

\* Insert, lines 78-98: thread t has fetched the header page and the block
\* page, holds table_latch_ for reading, and enters the loop at offset.
InsertFetchedAs(t, key, value, g) ==
  /\ ~g.blocked
  /\ g.next_page_id <= MaxPages
  /\ \A f \in DOMAIN g.pages_ : g.pages_[f].pin_count_ <= MaxPin
  /\ Install(g)
  /\ table_latch_' = table_latch_ + 1
  /\ thr' = [thr EXCEPT ![t] =
               [ pc |-> "Insert_IsOccupied", key |-> key, value |-> value,
                 iter |-> SlotOffset(key), ins_suc |-> FALSE, bucket_id |-> g.page,
                 room |-> Room(DataOf(g, g.frame), key, value) ]]
  /\ UNCHANGED << last, ghostVars, header_page_id_ >>

InsertFetch(t, key, value) ==
  /\ header_page_id_ # INVALID_PAGE_ID
  /\ thr[t].pc \in {"idle", "Insert_returned"}
  /\ InsertFetchedAs(t, key, value, InsertEnter(BPM, header_page_id_, key))

\* HashTableBlockPage::Insert, line 34: the test of the occupied bit.
InsertIsOccupied(t) ==
  /\ thr[t].pc = "Insert_IsOccupied"
  /\ InsertGoto(t, IF IsOccupied(Bucket(t), thr[t].iter) THEN "Insert_IsReadable"
                   ELSE "Insert_bits",
                thr[t].iter, FALSE)
  /\ UNCHANGED << bpmVars, last, ghostVars, hashVars >>

\* HashTableBlockPage::Insert, lines 38-39: the two bits are set.
InsertSetBits(t) ==
  /\ thr[t].pc = "Insert_bits"
  /\ BucketBecomes(t, [Bucket(t) EXCEPT !.occupied_ = @ \cup {thr[t].iter},
                                        !.readable_ = @ \cup {thr[t].iter}])
  /\ InsertGoto(t, "Insert_memcpy_first", thr[t].iter, FALSE)
  /\ UNCHANGED << last, ghostVars, hashVars >>

\* HashTableBlockPage::Insert, line 42: memcpy stores the key of the pair,
\* and then its value; the call returns true.
InsertMemcpyFirst(t) ==
  /\ thr[t].pc = "Insert_memcpy_first"
  /\ BucketBecomes(t, [Bucket(t) EXCEPT !.array_[thr[t].iter][1] = thr[t].key])
  /\ InsertGoto(t, "Insert_memcpy_second", thr[t].iter, FALSE)
  /\ UNCHANGED << last, ghostVars, hashVars >>

InsertMemcpySecond(t) ==
  /\ thr[t].pc = "Insert_memcpy_second"
  /\ BucketBecomes(t, [Bucket(t) EXCEPT !.array_[thr[t].iter][2] = thr[t].value])
  /\ InsertGoto(t, "Insert_IsReadable", thr[t].iter, TRUE)
  /\ UNCHANGED << last, ghostVars, hashVars >>

\* Insert, lines 102-108 and the loop test of line 100.
InsertIsReadable(t) ==
  /\ thr[t].pc = "Insert_IsReadable"
  /\ IF /\ IsReadable(Bucket(t), thr[t].iter)
        /\ KeyAt(Bucket(t), thr[t].iter) = thr[t].key
        /\ ValueAt(Bucket(t), thr[t].iter) = thr[t].value
     THEN InsertGoto(t, "Insert_RUnlock", thr[t].iter, thr[t].ins_suc)
     ELSE InsertGoto(t, IF thr[t].iter + 1 < BLOCK_ARRAY_SIZE /\ ~thr[t].ins_suc
                        THEN "Insert_IsOccupied" ELSE "Insert_RUnlock",
                     thr[t].iter + 1, thr[t].ins_suc)
  /\ UNCHANGED << bpmVars, last, ghostVars, hashVars >>

\* Insert, lines 110-113: the latch is released, both pages are unpinned dirty
\* and ins_suc is returned.
InsertReturn(t) ==
  /\ thr[t].pc = "Insert_RUnlock"
  /\ Install(UnpinPageImpl(UnpinPageImpl(BPM, thr[t].bucket_id, TRUE),
                           header_page_id_, TRUE))
  /\ table_latch_' = table_latch_ - 1
  /\ InsertGoto(t, "Insert_returned", thr[t].iter, thr[t].ins_suc)
  /\ last' = [op |-> "Insert", frame |-> NullFrame, ok |-> thr[t].ins_suc,
              dealloc |-> INVALID_PAGE_ID]
  /\ UNCHANGED << ghostVars, header_page_id_ >>

SharedNext ==
  \/ \E num_buckets \in NumBuckets : LinearProbeHashTable(num_buckets)
  \/ \E t \in Threads, key \in Keys, value \in Values : InsertFetch(t, key, value)
  \/ \E t \in Threads : InsertIsOccupied(t)
  \/ \E t \in Threads : InsertSetBits(t)
  \/ \E t \in Threads : InsertMemcpyFirst(t)
  \/ \E t \in Threads : InsertMemcpySecond(t)
  \/ \E t \in Threads : InsertIsReadable(t)
  \/ \E t \in Threads : InsertReturn(t)

SharedSpec == HashInit /\ [][SharedNext]_vars

\* ================================================================== claims
Frames == DOMAIN pages_
Resident(page_id) == page_id \in DOMAIN page_table_
\* The free list is empty and every frame is pinned.
AllPinned == Len(free_list_) = 0 /\ \A f \in Frames : pages_[f].pin_count_ > 0

\* C1: every frame with pin_count_ > 0 is out of the replacer (in_f false), so
\* the frame Victim would return is never a pinned one, and no call gives the
\* frame of a pinned page to another page.
C1_PinnedOutOfReplacer ==
  /\ [](/\ \A f \in Frames : pages_[f].pin_count_ > 0 => ~replacer_.in_f[f]
        /\ Victim(replacer_).result =>
              pages_[Victim(replacer_).frame_id].pin_count_ = 0)
  /\ [][ \A f \in Frames :
           pages_'[f].page_id_ # pages_[f].page_id_ => pages_[f].pin_count_ = 0 ]_vars

\* C1's case: FetchPage has just pinned a frame while the free list is empty
\* and Victim has another frame to return.
C1_Witness ==
  /\ last.op = "FetchPage" /\ last.frame # NullFrame
  /\ pages_[last.frame].pin_count_ > 0
  /\ Len(free_list_) = 0
  /\ Victim(replacer_).result /\ Victim(replacer_).frame_id # last.frame

\* The step is a FetchPage or NewPage that took frame f from Victim while f
\* held a dirty page.
ReusesDirtyVictim(f) ==
  /\ last'.op \in {"FetchPage", "NewPage"} /\ last'.frame = f
  /\ Len(free_list_) = 0
  /\ pages_[f].page_id_ # pages_'[f].page_id_
  /\ pages_[f].is_dirty_

\* The step is a FetchPage(tracked) that returned a frame.
FetchedTracked ==
  /\ last'.op = "FetchPage" /\ last'.frame # NullFrame
  /\ pages_'[last'.frame].page_id_ = tracked
  /\ \/ ~Resident(tracked)
     \/ pages_'[last'.frame].pin_count_ = pages_[last'.frame].pin_count_ + 1

\* C2 as stated: a FetchPage or NewPage that reuses a dirty frame from Victim
\* writes the frame's data to disk under the old page id, and a FetchPage(p)
\* that succeeds returns p's frame content at the latest UnpinPage(p, true).
C2_Original ==
  [][ /\ \A f \in Frames :
           ReusesDirtyVictim(f) => disk'[pages_[f].page_id_] = pages_[f].data_
      /\ (FetchedTracked /\ snap.has) => pages_'[last'.frame].data_ = snap.data
    ]_vars

\* C2 amended: the same, for a page that no caller has written and that was
\* not deleted from the pool since that UnpinPage(p, true).
C2_DirtyDataSurvivesEviction ==
  [][ /\ \A f \in Frames :
           ReusesDirtyVictim(f) => disk'[pages_[f].page_id_] = pages_[f].data_
      /\ (FetchedTracked /\ snap.has /\ ~stale)
           => pages_'[last'.frame].data_ = snap.data
    ]_vars

\* C2's case: the tracked page was written, unpinned dirty, evicted (its frame
\* holds another page since) and then fetched again with the written data.
C2_Witness ==
  /\ last.op = "FetchPage" /\ last.frame # NullFrame
  /\ pages_[last.frame].page_id_ = tracked
  /\ pages_[last.frame].pin_count_ = 1 /\ ~pages_[last.frame].is_dirty_
  /\ snap.has /\ ~stale /\ snap.data # ZeroData
  /\ pages_[last.frame].data_ = snap.data
  /\ \E q \in Allocated \ {tracked} : disk[q] # disk[tracked]

\* In the state after the step, frame f holds page_id, pinned once and clean,
\* and the page table maps page_id to f.
FreshlyPinned(f, page_id) ==
  /\ pages_'[f].page_id_ = page_id
  /\ pages_'[f].pin_count_ = 1
  /\ ~pages_'[f].is_dirty_
  /\ page_id \in DOMAIN page_table_' /\ page_table_'[page_id] = f

\* C3: FetchPage of a non-resident page and NewPage return null exactly when
\* the free list is empty and every frame is pinned; otherwise they return a
\* frame pinned once, clean and mapped under the requested or the freshly
\* allocated page id. A NewPage that returns null allocates no page id and
\* changes no frame, page-table, free-list or replacer state.
C3_NullExactlyWhenAllPinned ==
  [][ /\ \A p \in PageIds :
           (FetchPage(p) /\ ~Resident(p)) =>
              /\ (last'.frame = NullFrame) <=> AllPinned
              /\ last'.frame # NullFrame => FreshlyPinned(last'.frame, p)
      /\ NewPage =>
           /\ (last'.frame = NullFrame) <=> AllPinned
           /\ last'.frame # NullFrame =>
                /\ FreshlyPinned(last'.frame, next_page_id)
                /\ next_page_id' = next_page_id + 1
           /\ last'.frame = NullFrame =>
                UNCHANGED << next_page_id, pages_, page_table_, free_list_, replacer_ >>
    ]_vars

\* C3's case: with every frame pinned and no free frame, NewPage has returned null.
C3_Witness ==
  /\ last.op = "NewPage" /\ last.frame = NullFrame
  /\ AllPinned
  /\ next_page_id < MaxPages

\* C4: every operation has released every latch it acquired by the time it
\* returns, so between calls no latch is held.
C4_LatchesReleasedOnReturn ==
  pg_latch = 0 /\ pt_latch = 0 /\ fl_latch = 0

latchVars == << pg_latch, pt_latch, fl_latch >>

\* The latch thread t is waiting to lock, and the thread that holds a latch.
WaitsOn(t) ==
  CASE thr[t].pc \in {"Fetch_pt", "New_pt"} -> "pt"
    [] thr[t].pc \in {"New_pg", "Unpin_pg", "Delete_pg"} -> "pg"
    [] thr[t].pc \in {"Fetch_fl", "Delete_fl"} -> "fl"
    [] OTHER -> "none"
Holder(l) ==
  CASE l = "pt" -> pt_latch
    [] l = "pg" -> pg_latch
    [] l = "fl" -> fl_latch
    [] OTHER -> 0

\* C5: no interleaving of parallel FetchPage, NewPage, UnpinPage, DeletePage
\* and FlushAllPages calls reaches a state where two threads are each inside a
\* call, waiting for a latch that the other one holds.
C5_NoLatchCycle ==
  ~ \E t \in Threads, u \in Threads :
      /\ t # u
      /\ WaitsOn(t) # "none" /\ Holder(WaitsOn(t)) = u
      /\ WaitsOn(u) # "none" /\ Holder(WaitsOn(u)) = t

\* C6: UnpinPage(p, dirty) returns true and changes nothing when p is not in
\* the page table; returns false and changes nothing when p's pin count is
\* <= 0; otherwise returns true, decrements the pin count by one, sets
\* is_dirty to (is_dirty or dirty), and the frame is in the replacer
\* afterwards iff the pin count reached 0.
C6_UnpinContract ==
  [][ \A p \in PageIds, d \in BOOLEAN :
        UnpinPage(p, d) =>
          IF ~Resident(p) THEN last'.ok /\ UNCHANGED bpmVars
          ELSE IF pages_[page_table_[p]].pin_count_ <= 0
          THEN ~last'.ok /\ UNCHANGED bpmVars
          ELSE LET f == page_table_[p] IN
               /\ last'.ok
               /\ pages_' = [pages_ EXCEPT ![f].pin_count_ = @ - 1,
                                           ![f].is_dirty_ = @ \/ d]
               /\ replacer_'.in_f[f] <=> (pages_'[f].pin_count_ = 0)
               /\ \A g \in Frames \ {f} : replacer_'.in_f[g] = replacer_.in_f[g]
               /\ UNCHANGED << page_table_, free_list_, disk, next_page_id, latchVars >>
    ]_vars

\* C6's case: UnpinPage has returned true on a frame that another caller still
\* pins and that an earlier unpin marked dirty.
C6_Witness ==
  /\ last.op = "UnpinPage" /\ last.ok
  /\ \E f \in Frames : /\ pages_[f].pin_count_ = 1 /\ pages_[f].is_dirty_
                       /\ ~replacer_.in_f[f]
  /\ \E f \in Frames : pages_[f].pin_count_ = 0 /\ replacer_.in_f[f]

\* C7: DeletePage(p) returns false and changes nothing when p is resident and
\* pinned; returns true and changes nothing when p is INVALID_PAGE_ID or not in
\* the page table; otherwise returns true after DeallocatePage(p), with p out
\* of the page table, the frame's page id INVALID_PAGE_ID, is_dirty cleared and
\* the frame at the back of the free list.
C7_DeleteContract ==
  [][ \A p \in DiskPageIds :
        DeletePage(p) =>
          IF p = INVALID_PAGE_ID \/ ~Resident(p)
          THEN last'.ok /\ last'.dealloc = INVALID_PAGE_ID /\ UNCHANGED bpmVars
          ELSE IF pages_[page_table_[p]].pin_count_ > 0
          THEN ~last'.ok /\ last'.dealloc = INVALID_PAGE_ID /\ UNCHANGED bpmVars
          ELSE LET f == page_table_[p] IN
               /\ last'.ok /\ last'.dealloc = p
               /\ page_table_' = Erase(page_table_, p)
               /\ pages_' = [pages_ EXCEPT ![f].page_id_ = INVALID_PAGE_ID,
                                           ![f].is_dirty_ = FALSE]
               /\ free_list_' = Append(free_list_, f)
               /\ UNCHANGED << disk, next_page_id, latchVars >>
    ]_vars

\* C7's case: DeletePage has deleted the page of frame 0, which went to the
\* back of the free list behind frame 1.
C7_Witness ==
  /\ last.op = "DeletePage" /\ last.ok /\ last.dealloc # INVALID_PAGE_ID
  /\ free_list_ = << 1, 0 >>
  /\ pages_[0].page_id_ = INVALID_PAGE_ID

\* C8: FlushPage(p) writes the frame's data to disk under p, clears is_dirty
\* and returns true when p is resident and dirty; returns true without writing
\* when p is resident and clean; returns false without writing when p is not
\* resident. Pin counts, page table, free list and replacer never change.
C8_FlushContract ==
  [][ \A p \in PageIds :
        FlushPage(p) =>
          /\ IF Resident(p) /\ pages_[page_table_[p]].is_dirty_
             THEN /\ last'.ok
                  /\ disk' = [disk EXCEPT ![p] = pages_[page_table_[p]].data_]
                  /\ pages_' = [pages_ EXCEPT ![page_table_[p]].is_dirty_ = FALSE]
             ELSE /\ last'.ok <=> Resident(p)
                  /\ UNCHANGED << disk, pages_ >>
          /\ UNCHANGED << page_table_, free_list_, replacer_ >>
    ]_vars

\* C8's case: FlushPage has written the data a caller wrote into the frame of
\* the tracked page, which is still pinned, and left the frame clean.
C8_Witness ==
  /\ last.op = "FlushPage" /\ last.ok
  /\ Resident(tracked)
  /\ pages_[page_table_[tracked]].pin_count_ > 0
  /\ ~pages_[page_table_[tracked]].is_dirty_
  /\ pages_[page_table_[tracked]].data_ # ZeroData
  /\ disk[tracked] = pages_[page_table_[tracked]].data_

\* C9 as stated: FetchPage(p) then UnpinPage(p, false) on a resident p leaves
\* page table, free list, frames, disk and the whole replacer state unchanged.
C9_Original ==
  [][ \A p \in PageIds :
        FetchThenUnpin(p) =>
          UNCHANGED << pages_, page_table_, free_list_, disk, replacer_ >>
    ]_vars

\* C9 amended: the same, except that the reference bit of p's frame is set
\* when p's pin count was 0 (the frame leaves the replacer and enters it again).
C9_FetchUnpinRoundTrip ==
  [][ \A p \in PageIds :
        FetchThenUnpin(p) =>
          /\ UNCHANGED << pages_, page_table_, free_list_, disk >>
          /\ replacer_' =
               [replacer_ EXCEPT !.ref_f[page_table_[p]] =
                   IF pages_[page_table_[p]].pin_count_ = 0 THEN TRUE ELSE @]
    ]_vars

\* C9's case: the pair has run on an unpinned page after Victim moved the hand,
\* and the page's frame is in the replacer with its reference bit set.
C9_Witness ==
  /\ last.op = "FetchPage;UnpinPage" /\ last.ok
  /\ replacer_.clock_hand # 0
  /\ \A f \in Frames :
       pages_[f].pin_count_ = 0 /\ replacer_.in_f[f] /\ replacer_.ref_f[f]

\* C10: after any sequence of completed hash table calls (constructor, Insert,
\* GetValue, Remove, GetSize) every frame's pin count is 0 and no reader holds
\* the table latch.
C10_PinsAndTableLatchBalanced ==
  /\ \A f \in Frames : pages_[f].pin_count_ = 0
  /\ table_latch_ = 0

\* ------------------------------------------------ the table as callers see it
\* The content of a page: its frame's data when resident, else the disk's.
PageData(page_id) ==
  IF page_id \in DOMAIN page_table_ THEN pages_[page_table_[page_id]].data_
  ELSE disk[page_id]

TableBuilt == header_page_id_ # INVALID_PAGE_ID
Header == PageData(header_page_id_)
\* The block pages registered in the header.
BlockIds == {Header.block_page_ids_[j] : j \in DOMAIN Header.block_page_ids_}
\* The block page of a key (INVALID_PAGE_ID when the header holds none) and
\* the slot its probe starts at.
BlockOf(key) == GetBlockPageId(Header, BlockIndex(Header, key))

\* Slot i of block page data d is live and holds (key, value).
Live(d, i, key, value) ==
  IsReadable(d, i) /\ KeyAt(d, i) = key /\ ValueAt(d, i) = value

\* The live slots of the table that hold (key, value), as << block page, slot >>.
LiveSlots(key, value) ==
  {qi \in BlockIds \X Slots : Live(PageData(qi[1]), qi[2], key, value)}

\* How often v occurs in the sequence seq.
CountIn(seq, v) == Cardinality({i \in DOMAIN seq : seq[i] = v})

\* How often GetValue(key) yields value on the table h, and on the table as it is.
FoundIn(h, key, value) == CountIn(GetValueImpl(h, key).result, value)
Found(key, value) == FoundIn(HT, key, value)

\* The header's block list and every block page's content are the same after the step.
TableUnchanged ==
  /\ Header'.block_page_ids_ = Header.block_page_ids_
  /\ Header'.size_ = Header.size_
  /\ \A q \in BlockIds : PageData(q)' = PageData(q)

\* C11: an Insert(k, v) made while a live slot holds (k, v) returns false and
\* leaves every block page's slots, occupied bits and readable bits unchanged;
\* and in every state no two live slots hold the same pair, and GetValue(k)
\* yields v once when (k, v) is live and not at all otherwise.
C11_DuplicateInsertRejected ==
  /\ [][ \A key \in Keys, value \in Values :
           (Insert(key, value) /\ LiveSlots(key, value) # {})
             => ~last'.ok /\ TableUnchanged ]_vars
  /\ [](TableBuilt =>
          \A key \in Keys, value \in Values :
             /\ Cardinality(LiveSlots(key, value)) <= 1
             /\ Found(key, value) = Cardinality(LiveSlots(key, value)))

\* C11's case: in a table of one block page whose only occupied slot is the
\* live slot 0, an Insert has returned false: it named the pair of slot 0.
C11_Witness ==
  /\ TableBuilt /\ last.op = "Insert" /\ ~last.ok
  /\ Cardinality(BlockIds) = 1
  /\ \A q \in BlockIds : PageData(q).occupied_ = {0} /\ PageData(q).readable_ = {0}

\* The live slots at or after offset(key) in key's block page that hold (key, value).
ProbedLive(key, value) ==
  IF BlockOf(key) = INVALID_PAGE_ID THEN {}
  ELSE {i \in Slots : i >= SlotOffset(key)
                      /\ Live(PageData(BlockOf(key)), i, key, value)}

Lowest(S) == CHOOSE i \in S : \A j \in S : i <= j

\* C12: Remove(k, v) returns true exactly when a live slot at or after
\* offset(k) in k's block page holds (k, v); it then clears the readable bit of
\* the first such slot, keeps its occupied bit and changes nothing else in the
\* table, and a failing Remove changes nothing; GetValue(k) on the table the
\* Remove leaves does not yield v, and yields every other pair as often as before.
C12_RemoveTombstonesFirstMatch ==
  [][ \A key \in Keys, value \in Values :
        Remove(key, value) =>
          /\ last'.ok = (ProbedLive(key, value) # {})
          /\ IF ProbedLive(key, value) = {} THEN TableUnchanged
             ELSE /\ Header'.block_page_ids_ = Header.block_page_ids_
                  /\ \A q \in BlockIds :
                       PageData(q)' =
                         IF q = BlockOf(key)
                         THEN [PageData(q) EXCEPT
                                 !.readable_ = @ \ {Lowest(ProbedLive(key, value))}]
                         ELSE PageData(q)
          /\ FoundIn(RemoveImpl(HT, key, value), key, value) = 0
          /\ \A k2 \in Keys, v2 \in Values :
               << k2, v2 >> # << key, value >>
                 => FoundIn(RemoveImpl(HT, key, value), k2, v2) = Found(k2, v2) ]_vars

\* C12's case: a Remove has returned true and left a tombstone, a slot that is
\* occupied and not readable.
C12_Witness ==
  /\ TableBuilt /\ last.op = "Remove" /\ last.ok
  /\ \E q \in BlockIds : PageData(q).occupied_ \ PageData(q).readable_ # {}

\* Thread t's Insert has returned; it named a pair that was not live and had
\* two free slots or more to probe when it fetched its block page.
InsertedWithRoom(t) == thr[t].pc = "Insert_returned" /\ thr[t].room >= 2

\* C13: when two threads have inserted different pairs into the same block
\* page, each with two or more free slots to probe, both Inserts returned true
\* and GetValue finds both pairs, whatever the interleaving of their steps.
C13_ConcurrentInsertsBothFound ==
  \A t \in Threads, u \in Threads :
      ( /\ t # u /\ InsertedWithRoom(t) /\ InsertedWithRoom(u)
        /\ thr[t].bucket_id = thr[u].bucket_id
        /\ << thr[t].key, thr[t].value >> # << thr[u].key, thr[u].value >> )
        => /\ thr[t].ins_suc /\ thr[u].ins_suc
           /\ Found(thr[t].key, thr[t].value) >= 1
           /\ Found(thr[u].key, thr[u].value) >= 1

\* The replacer of capacity 3 after Unpin(0), Unpin(1), Unpin(2), Unpin(0).
AfterFourUnpins == Unpin(Unpin(Unpin(Unpin(ClockReplacer(3), 0), 1), 2), 0)
AllFalse == [i \in 0 .. 2 |-> FALSE]

\* C14 as stated: on that replacer the first Victim clears the reference bit
\* of frame 0 and returns frame 1.
C14_Original ==
  [][ (replacer_ = AfterFourUnpins /\ VictimCall)
        => last'.ok /\ last'.frame = 1 /\ ~replacer_'.ref_f[0] ]_vars

\* C14: on the replacer of capacity 3 after Unpin(0), Unpin(1), Unpin(2),
\* Unpin(0) every frame has its reference bit set, and the first Victim clears
\* the reference bits of frames 0, 1 and 2, returns frame 0, takes it out of
\* the replacer and leaves the clock hand at 1.
C14_VictimAfterFourUnpins ==
  [][ (replacer_ = AfterFourUnpins /\ VictimCall)
        => /\ \A i \in 0 .. 2 : replacer_.ref_f[i] /\ replacer_.in_f[i]
           /\ last'.ok /\ last'.frame = 0
           /\ replacer_'.ref_f = AllFalse
           /\ replacer_'.in_f = [AfterFourUnpins.in_f EXCEPT ![0] = FALSE]
           /\ replacer_'.clock_hand = 1 ]_vars

\* C14's case: Victim has returned on the replacer the four Unpins left.
C14_Witness ==
  /\ last.op = "Victim" /\ last.ok
  /\ replacer_ = Victim(AfterFourUnpins).r

\* The position the clock hand of r reaches after i steps, the positions in
\* the replacer, and the steps at which the scan meets a zero-ref one.
Position(r, i) == (r.clock_hand + i) % buffer_size(r)
Steps(r) == 0 .. (buffer_size(r) - 1)
InSteps(r) == {i \in Steps(r) : r.in_f[Position(r, i)]}
ZeroRefSteps(r) == {i \in InSteps(r) : ~r.ref_f[Position(r, i)]}

\* The replacer after the victim at step n was taken: the reference bits of
\* the positions in the replacer scanned before step `scanned` are cleared.
Taken(r, n, scanned) ==
  [ clock_hand |-> (Position(r, n) + 1) % buffer_size(r),
    in_f |-> [r.in_f EXCEPT ![Position(r, n)] = FALSE],
    ref_f |-> [p \in DOMAIN r.ref_f |->
                 IF \E i \in InSteps(r) : i < scanned /\ Position(r, i) = p
                 THEN FALSE ELSE r.ref_f[p]] ]

\* The clock rule: the first zero-ref position from the hand; else the first
\* position in the replacer, every reference bit in it cleared; else none.
ClockRule(r) ==
  IF ZeroRefSteps(r) # {}
  THEN [r |-> Taken(r, Lowest(ZeroRefSteps(r)), Lowest(ZeroRefSteps(r))),
        result |-> TRUE, frame_id |-> Position(r, Lowest(ZeroRefSteps(r)))]
  ELSE IF InSteps(r) # {}
  THEN [r |-> Taken(r, Lowest(InSteps(r)), buffer_size(r)),
        result |-> TRUE, frame_id |-> Position(r, Lowest(InSteps(r)))]
  ELSE [r |-> r, result |-> FALSE, frame_id |-> NullFrame]

\* C15: in every replacer state Victim does what the clock rule says: it
\* returns the rule's frame and leaves the rule's replacer, the victim is out
\* of the replacer, the hand is one past it and Size is one less; it returns
\* none, changing nothing, exactly when no frame is in the replacer.
C15_VictimIsClockRule ==
  [][ VictimCall =>
        /\ replacer_' = ClockRule(replacer_).r
        /\ last'.ok = ClockRule(replacer_).result
        /\ last'.frame = ClockRule(replacer_).frame_id
        /\ last'.ok = (Size(replacer_) > 0)
        /\ last'.ok => /\ ~replacer_'.in_f[last'.frame]
                       /\ replacer_'.clock_hand = (last'.frame + 1) % buffer_size(replacer_)
                       /\ Size(replacer_') = Size(replacer_) - 1
        /\ ~last'.ok => replacer_' = replacer_ /\ last'.frame = NullFrame ]_vars

\* C15's case: Victim fell back on a position whose reference bit it had
\* cleared, and every frame still in the replacer has its bit cleared with it.
C15_Witness ==
  /\ last.op = "Victim" /\ last.ok
  /\ replacer_.clock_hand = (last.frame + 1) % buffer_size(replacer_)
  /\ replacer_.ref_f[last.frame]= FALSE
  /\ Size(replacer_) = 2
  /\ \A i \in DOMAIN replacer_.in_f : replacer_.in_f[i] => ~replacer_.ref_f[i]

\* Frame f is in the free list, and is the frame of a page in the page table.
InFreeList(f) == \E i \in DOMAIN free_list_ : free_list_[i] = f
IsTarget(f) == \E page_id \in DOMAIN page_table_ : page_table_[page_id] = f

\* C16: a frame in the replacer holds a resident page and has pin_count_ 0; a
\* frame is in the free list exactly when it is neither the frame of a page in
\* the page table nor in the replacer; and a DeletePage that deletes a resident
\* page leaves its frame out of the replacer, with Size one less.
C16_ReplacerFreeListPartition ==
  /\ [](\A f \in Frames :
          /\ replacer_.in_f[f] =>
               /\ pages_[f].pin_count_ = 0
               /\ pages_[f].page_id_ \in DOMAIN page_table_
               /\ page_table_[pages_[f].page_id_] = f
          /\ InFreeList(f) <=> (~IsTarget(f) /\ ~replacer_.in_f[f]))
  /\ [][ \A p \in DiskPageIds :
           (Resident(p) /\ DeletePage(p) /\ last'.dealloc = p) =>
              /\ ~replacer_'.in_f[page_table_[p]]
              /\ Size(replacer_') = Size(replacer_) - 1 ]_vars

\* C17: every value of the page table is a frame of the pool, the page id of
\* that frame is the key, no two keys have the same frame, and no frame of the
\* page table is in the free list.
C17_PageTableWellFormed ==
  /\ \A p \in DOMAIN page_table_ :
       /\ page_table_[p] \in 0 .. (Cardinality(Frames) - 1)
       /\ pages_[page_table_[p]].page_id_ = p
       /\ ~InFreeList(page_table_[p])
  /\ \A p \in DOMAIN page_table_, q \in DOMAIN page_table_ :
       page_table_[p] = page_table_[q] => p = q

\* C17's case: every frame of the pool holds a page, FetchPage has just
\* brought one of them in, and a page allocated earlier had to leave for it.
C17_Witness ==
  /\ last.op = "FetchPage" /\ last.frame # NullFrame
  /\ Cardinality(DOMAIN page_table_) = Cardinality(Frames)
  /\ Len(free_list_) = 0
  /\ \E p \in Allocated : ~Resident(p)

\* C18: in every block page, in its frame and on disk, a readable slot is
\* occupied; and no step clears an occupied bit of a block page.
C18_ReadableImpliesOccupied ==
  /\ [](/\ \A f \in Frames : pages_[f].data_.readable_ \subseteq pages_[f].data_.occupied_
        /\ \A page_id \in DOMAIN disk : disk[page_id].readable_ \subseteq disk[page_id].occupied_
        /\ TableBuilt =>
             \A q \in BlockIds : PageData(q).readable_ \subseteq PageData(q).occupied_)
  /\ [][ TableBuilt =>
           \A q \in BlockIds : PageData(q).occupied_ \subseteq PageData(q)'.occupied_ ]_vars

\* C18's case: Remove has made the last live slot of a full block page a
\* tombstone: every slot is occupied and none is readable.
C18_Witness ==
  /\ TableBuilt /\ last.op = "Remove" /\ last.ok
  /\ \E q \in BlockIds : PageData(q).occupied_ = Slots /\ PageData(q).readable_ = {}

\* A block page before an Insert: a page the Insert adds to the header is zeroed.
BlockBefore(q) == IF q \in BlockIds THEN PageData(q) ELSE ZeroData

\* The slots of block page d that are not occupied, from offset(key) on, and d
\* with (key, value) live in the lowest of them.
FreeFrom(d, key) == {i \in Slots : i >= SlotOffset(key) /\ i \notin d.occupied_}
StoredIn(d, key, value) ==
  IF FreeFrom(d, key) = {} THEN d
  ELSE [d EXCEPT !.occupied_ = @ \cup {Lowest(FreeFrom(d, key))},
                 !.readable_ = @ \cup {Lowest(FreeFrom(d, key))},
                 !.array_[Lowest(FreeFrom(d, key))] = << key, value >>]

\* C19: an Insert of a pair that is not live stores it in the lowest slot that
\* is not occupied at or after offset(key) in the block page of index
\* hash mod num_buckets, changes no other slot of any block page and returns
\* true; it returns false and stores nothing when every slot from offset(key)
\* to the end of that block page is occupied: the probe does not wrap, goes to
\* no other block page and takes no tombstone.
C19_InsertTakesLowestFreeSlot ==
  [][ \A key \in Keys, value \in Values :
        (Insert(key, value) /\ LiveSlots(key, value) = {}) =>
          /\ Header'.size_ = Header.size_
          /\ BlockIds \subseteq BlockIds'
          /\ BlockOf(key)' \in BlockIds'
          /\ BlockOf(key)' = GetBlockPageId(Header', GetHash(key) % Header.size_)
          /\ last'.ok = (FreeFrom(BlockBefore(BlockOf(key)'), key) # {})
          /\ \A q \in BlockIds' :
               PageData(q)' = IF q = BlockOf(key)'
                              THEN StoredIn(BlockBefore(q), key, value)
                              ELSE BlockBefore(q) ]_vars

\* C19's case: in a table of one block page an Insert of key 0 has passed the
\* tombstone in slot 0 and stored its pair in slot 1.
C19_Witness ==
  /\ TableBuilt /\ last.op = "Insert" /\ last.ok
  /\ Cardinality(BlockIds) = 1
  /\ \A q \in BlockIds :
       /\ PageData(q).occupied_ = {0, 1} /\ PageData(q).readable_ = {1}
       /\ KeyAt(PageData(q), 1) = 0

\* Thread t is about to read the page table, and about to read or write the
\* metadata of a frame, in a FlushPage.
ReadsPageTable(t) == thr[t].pc = "Flush_find"
AccessesFrame(t) == thr[t].pc \in {"Flush_IsDirty", "Flush_WritePage"}

\* The metadata of frame f.
Metadata(f) ==
  [page_id_ |-> pages_[f].page_id_, pin_count_ |-> pages_[f].pin_count_,
   is_dirty_ |-> pages_[f].is_dirty_]

\* C20: a thread that is about to read the page table holds pt_latch, and a
\* thread that is about to read or write a frame's metadata holds pg_latch;
\* and while a thread is between two of its accesses to a frame, no step of
\* another thread changes that frame's metadata or the page's entry in the
\* page table.
C20_AccessesUnderLatch ==
  /\ [](\A t \in Threads :
          /\ ReadsPageTable(t) => pt_latch = t
          /\ AccessesFrame(t) => pg_latch = t)
  /\ [][ \A t \in Threads :
           (AccessesFrame(t) /\ thr'[t] = thr[t]) =>
              /\ Metadata(thr[t].frame)' = Metadata(thr[t].frame)
              /\ thr[t].page_id \in DOMAIN page_table_'
              /\ page_table_'[thr[t].page_id] = thr[t].frame ]_vars

\* Frame id f is in the range of the replacer.
InRange(f) == 0 <= f /\ f < buffer_size(replacer_)

\* C21: Pin(f) leaves in_f[f] false and Unpin(f) leaves in_f[f] and ref_f[f]
\* true, changing no other bit; a second call of the same kind changes
\* nothing more; neither moves the clock hand; and a Pin or an Unpin with a
\* frame id below 0 or at or above the capacity leaves the replacer as it was.
C21_PinUnpinIdempotent ==
  [][ \A f \in -1 .. buffer_size(replacer_) :
        /\ PinAnyId(f) =>
             /\ replacer_'.clock_hand = replacer_.clock_hand
             /\ Pin(replacer_', f) = replacer_'
             /\ IF InRange(f)
                THEN replacer_' = [replacer_ EXCEPT !.in_f[f] = FALSE]
                ELSE replacer_' = replacer_
        /\ UnpinAnyId(f) =>
             /\ replacer_'.clock_hand = replacer_.clock_hand
             /\ Unpin(replacer_', f) = replacer_'
             /\ IF InRange(f)
                THEN replacer_' = [replacer_ EXCEPT !.in_f[f] = TRUE, !.ref_f[f] = TRUE]
                ELSE replacer_' = replacer_ ]_vars

\* The abstract set the table stands for: the pairs some live slot holds.
Pairs == {kv \in Keys \X Values : LiveSlots(kv[1], kv[2]) # {}}

\* The key's block page has a non-occupied slot at or after the key's offset,
\* or is still to be allocated.
HasSlot(key) ==
  FreeFrom(IF BlockOf(key) = INVALID_PAGE_ID THEN ZeroData ELSE PageData(BlockOf(key)),
           key) # {}

\* Insert, Remove and GetValue return to their caller, whatever the arguments.
EveryCallReturns ==
  TableBuilt =>
    /\ \A key \in Keys : ~GetValueImpl(HT, key).undefined
    /\ \A key \in Keys, value \in Values :
         ~InsertImpl(HT, key, value).undefined /\ ~RemoveImpl(HT, key, value).undefined

\* C22: in every single-threaded sequence of Insert, Remove and GetValue calls
\* the hash table behaves as the abstract set Pairs, block pages being evicted
\* and fetched again between the calls: every call returns; a new table holds
\* no pair; Insert(k, v), unless it fails for lack of a non-occupied slot,
\* returns true iff the pair was absent, and the pair is in the set afterwards;
\* Remove(k, v) returns true iff the pair was present, and the pair is out of
\* the set afterwards; GetValue(k) appends each value v with (k, v) in the set
\* exactly once and nothing else, returns true iff there is one, and leaves
\* the set as it was.
C22_BehavesAsSet ==
  /\ []EveryCallReturns
  /\ [][ \A num_buckets \in NumBuckets :
           LinearProbeHashTable(num_buckets) => Pairs' = {} ]_vars
  /\ [][ \A key \in Keys :
           /\ GetValue(key) =>
                /\ \A value \in Values :
                     Found(key, value) = IF << key, value >> \in Pairs THEN 1 ELSE 0
                /\ Len(GetValueImpl(HT, key).result)
                     = Cardinality({value \in Values : << key, value >> \in Pairs})
                /\ last'.ok = (\E value \in Values : << key, value >> \in Pairs)
                /\ Pairs' = Pairs
           /\ \A value \in Values :
                /\ (Insert(key, value) /\ (<< key, value >> \in Pairs \/ HasSlot(key))) =>
                     /\ last'.ok = (<< key, value >> \notin Pairs)
                     /\ Pairs' = Pairs \cup {<< key, value >>}
                /\ Remove(key, value) =>
                     /\ last'.ok = (<< key, value >> \in Pairs)
                     /\ Pairs' = Pairs \ {<< key, value >>} ]_vars

====
